---- MODULE Spec2Model ----
(***************************************************************************)
(* Transaction object of the native backend (NativeTxn, TxnCursor) and the *)
(* transaction lifecycle of an instance (begin_txn, commit_txn, abort_txn). *)
(* One NativeTxn wraps one substrate transaction and owns an active flag,   *)
(* a scratch buffer cell, a change-set and a pool of unbound cursors.       *)
(***************************************************************************)
EXTENDS Integers, Sequences, FiniteSets

\* ---------------------------------------------------------------- bounds
\* Transactions an instance begins in one run.
MaxTxns == 2
\* TxnCursors one transaction holds at the same time.
MaxCursors == 4
\* Scratch buffers of one transaction held by callers at the same time.
MaxBuffers == 2
\* Bytes a caller writes into a scratch buffer.
MaxBufLen == 1
\* Distinct (collection, optional id) change events.
MaxEvents == 1
\* Objects one import_json call imports.
MaxCount == 2
\* Cursors, and scratch buffers, a caller holds at the same time when every
\* operation of a transaction is exercised together.
MaxHeld == 1

\* The cursor pool's capacity: `unbound_cursors.borrow().len() < 3`.
PoolCap == 3

Txns == 1..MaxTxns
Events == 1..MaxEvents
\* Sub-databases a cursor can be bound to.
Dbs == {"primary", "index"}

\* Option<T>: None is <<>>, Some(x) is <<x>>.
None == <<>>
Some(x) == <<x>>

VARIABLES
    status,           \* per transaction: "new", "waiting" (inside begin_txn), "live", "ended"
    write,            \* the write flag begin_txn was called with
    sub,              \* the wrapped substrate transaction (NativeTxn.txn)
    active,           \* NativeTxn.active
    buffer,           \* NativeTxn.buffer: Option of a scratch buffer [id, len]
    change_set,       \* NativeTxn.change_set: the events recorded
    unbound_cursors,  \* NativeTxn.unbound_cursors: Vec of unbound cursors
    cursors,          \* the TxnCursors callers hold: set of [id, db]
    taken,            \* the scratch buffers callers hold: set of [id, len]
    recorded,         \* per transaction begun: the events registered through get_change_set
    guardFailed,      \* per live transaction: a job run through guard has returned an error
    endedBy,          \* per transaction: the call that consumed it
    last              \* the most recent call: transaction, operation, result, the
                      \* substrate call it made, the change-sets it handed to
                      \* notify_watchers, the events it dropped unnotified, and
                      \* what the operation was given (arg) or counted (count)

vars == <<status, write, sub, active, buffer, change_set, unbound_cursors,
          cursors, taken, recorded, guardFailed, endedBy, last>>

lifeVars == <<status, write, sub, endedBy>>
fieldVars == <<active, buffer, change_set, unbound_cursors>>
callerVars == <<cursors, taken>>
ghostVars == <<recorded, guardFailed>>

\* ---------------------------------------------------------------- helpers
Min(S) == CHOOSE x \in S : \A y \in S : x <= y

\* The transaction the single-transaction specifications exercise.
Txn1 == Min(Txns)

\* The value a call returns, and the substrate call it made, become `last`.
Called(t, op, res, call, ntf, dis) ==
    [txn |-> t, op |-> op, result |-> res, sub |-> call, notify |-> ntf,
     discarded |-> dis, arg |-> "none", count |-> 0, tick |-> 1 - last.tick]

Returned(t, op, res, call) == Called(t, op, res, call, <<>>, {})

\* Result<T> of a substrate call or of a job.
ResultOf(ok) == IF ok THEN "Ok" ELSE "Err"

\* Env::txn(write): the substrate admits one write transaction at a time and
\* any number of read transactions.
WriterHeld == \E u \in Txns : write[u] /\ sub[u] = "open"

EnvTxn_free(w) == TRUE

EnvTxn(w) == w => ~WriterHeld

\* Drop of the wrapped substrate transaction (Txn) when a NativeTxn is
\* dropped without txn.commit() or txn.abort(): the substrate transaction
\* is given up, and with it the writer slot.
Txn_dropped_leaked == "open"

Txn_dropped == "dropped"

\* ChangeSet::new()
ChangeSet_new == {}

\* ChangeSet registration of one (collection, optional id) event.
RegisterChange(cs, e) == cs \cup {e}

\* ---------------------------------------------------------------- Init
Init ==
    /\ status = [t \in Txns |-> "new"]
    /\ write = [t \in Txns |-> FALSE]
    /\ sub = [t \in Txns |-> "none"]
    /\ active = [t \in Txns |-> FALSE]
    /\ buffer = [t \in Txns |-> None]
    /\ change_set = [t \in Txns |-> {}]
    /\ unbound_cursors = [t \in Txns |-> <<>>]
    /\ cursors = [t \in Txns |-> {}]
    /\ taken = [t \in Txns |-> {}]
    /\ recorded = [t \in Txns |-> {}]
    /\ guardFailed = [t \in Txns |-> FALSE]
    /\ endedBy = [t \in Txns |-> "none"]
    /\ last = [txn |-> 0, op |-> "none", result |-> "none", sub |-> "none",
               notify |-> <<>>, discarded |-> {}, arg |-> "none", count |-> 0,
               tick |-> 0]


\* ---------------------------------------------------------------- lifecycle
\* A slot holds no transaction: none was begun in it yet, or the last one
\* was consumed by commit or abort (or begin_txn failed).
Idle(t) == status[t] \in {"new", "ended"}

\* IsarInstance::begin_txn(write): the call is made and waits in Env::txn;
\* nothing has been returned yet ("Pending").
begin_txn(t, w) ==
    /\ Idle(t)
    /\ t = Min({u \in Txns : Idle(u)})
    /\ status' = [status EXCEPT ![t] = "waiting"]
    /\ write' = [write EXCEPT ![t] = w]
    /\ sub' = [sub EXCEPT ![t] = "none"]
    /\ endedBy' = [endedBy EXCEPT ![t] = "none"]
    /\ last' = Returned(t, "begin_txn", "Pending", "none")
    /\ UNCHANGED <<fieldVars, callerVars, ghostVars>>

\* NativeTxn::new: env.txn(write)? then the fields are initialised.
NativeTxn_new(t, ok) ==
    /\ status[t] = "waiting"
    /\ IF ok
       THEN /\ EnvTxn(write[t])
            /\ status' = [status EXCEPT ![t] = "live"]
            /\ sub' = [sub EXCEPT ![t] = "open"]
            /\ active' = [active EXCEPT ![t] = TRUE]
            /\ buffer' = [buffer EXCEPT ![t] = None]
            /\ change_set' = [change_set EXCEPT ![t] = ChangeSet_new]
            /\ unbound_cursors' = [unbound_cursors EXCEPT ![t] = <<>>]
            /\ UNCHANGED endedBy
       ELSE /\ status' = [status EXCEPT ![t] = "ended"]
            /\ endedBy' = [endedBy EXCEPT ![t] = "begin_txn"]
            /\ UNCHANGED <<sub, fieldVars>>
    /\ last' = Returned(t, "begin_txn", ResultOf(ok), "txn_begin")
    /\ UNCHANGED <<write, callerVars, ghostVars>>

\* commit(self) and abort(self) take the NativeTxn by value: it is dropped
\* when the call returns, with its buffer, change-set and cursor pool.
\* Scratch buffers callers still hold are theirs alone from then on.
Consumed(t, by) ==
    /\ status' = [status EXCEPT ![t] = "ended"]
    /\ endedBy' = [endedBy EXCEPT ![t] = by]
    /\ active' = [active EXCEPT ![t] = FALSE]
    /\ buffer' = [buffer EXCEPT ![t] = None]
    /\ change_set' = [change_set EXCEPT ![t] = {}]
    /\ unbound_cursors' = [unbound_cursors EXCEPT ![t] = <<>>]
    /\ taken' = [taken EXCEPT ![t] = {}]
    /\ recorded' = [recorded EXCEPT ![t] = {}]
    /\ guardFailed' = [guardFailed EXCEPT ![t] = FALSE]
    /\ UNCHANGED <<write, cursors>>

\* commit: `if !self.active.get()`.
commit_closed_unchecked(a) == FALSE

commit_closed(a) == ~a

\* commit: `self.txn.commit()?; self.change_set.borrow_mut().notify_watchers();`
\* the change-sets handed to notify_watchers, given the substrate's answer.
commit_notifications_unchecked(cs, ok) == <<cs>>

commit_notifications_twice(cs, ok) == IF ok THEN <<cs, cs>> ELSE <<>>

commit_notifications(cs, ok) == IF ok THEN <<cs>> ELSE <<>>

\* The events of a change-set dropped with its transaction, given the
\* change-sets that were handed to notify_watchers.
Discarded(cs, ntf) == cs \ UNION {ntf[i] : i \in 1..Len(ntf)}

\* NativeTxn::commit. A TxnCursor borrows the transaction for 'txn, so the
\* transaction can be moved into commit only when no TxnCursor is held.
commit(t, ok) ==
    /\ status[t] = "live"
    /\ cursors[t] = {}
    /\ IF commit_closed(active[t])
       THEN /\ sub' = [sub EXCEPT ![t] = Txn_dropped]
            /\ last' = Called(t, "commit", "TransactionClosed", "none",
                              <<>>, change_set[t])
       ELSE LET ntf == commit_notifications(change_set[t], ok)
            IN  /\ sub' = [sub EXCEPT ![t] = IF ok THEN "committed" ELSE "commit_failed"]
                /\ last' = Called(t, "commit", ResultOf(ok), "commit",
                                  ntf, Discarded(change_set[t], ntf))
    /\ Consumed(t, "commit")

\* NativeTxn::abort
abort_notifying(t) ==
    /\ status[t] = "live"
    /\ cursors[t] = {}
    /\ sub' = [sub EXCEPT ![t] = IF active[t] THEN "aborted" ELSE Txn_dropped]
    /\ last' = Called(t, "abort", "None", IF active[t] THEN "abort" ELSE "none",
                      <<change_set[t]>>, {})
    /\ Consumed(t, "abort")

abort_unchecked(t) ==
    /\ status[t] = "live"
    /\ cursors[t] = {}
    /\ sub' = [sub EXCEPT ![t] = "aborted"]
    /\ last' = Called(t, "abort", "None", "abort", <<>>, change_set[t])
    /\ Consumed(t, "abort")

abort(t) ==
    /\ status[t] = "live"
    /\ cursors[t] = {}
    /\ sub' = [sub EXCEPT ![t] = IF active[t] THEN "aborted" ELSE Txn_dropped]
    /\ last' = Called(t, "abort", "None", IF active[t] THEN "abort" ELSE "none",
                      <<>>, change_set[t])
    /\ Consumed(t, "abort")

\* ---------------------------------------------------------------- guard
\* guard: `if !result.is_ok() { self.active.replace(false); }`
guard_active_unlatched(a, ok) == a

guard_active_inverted(a, ok) == IF ok THEN FALSE ELSE a

guard_active(a, ok) == IF ok THEN a ELSE FALSE

\* NativeTxn::guard(job): the job returns Ok (ok) or an error. `last` keeps
\* what the job returned and the number of times it was run.
guard_rearming(t, ok) ==
    /\ status[t] = "live"
    /\ IF ~active[t]
       THEN /\ last' = Returned(t, "guard", "TransactionClosed", "none")
            /\ active' = [active EXCEPT ![t] = ok]
            /\ UNCHANGED guardFailed
       ELSE /\ active' = [active EXCEPT ![t] = guard_active(active[t], ok)]
            /\ guardFailed' = [guardFailed EXCEPT ![t] = guardFailed[t] \/ ~ok]
            /\ last' = [Returned(t, "guard", ResultOf(ok), "job")
                           EXCEPT !.arg = ResultOf(ok), !.count = 1]
    /\ UNCHANGED <<lifeVars, buffer, change_set, unbound_cursors, callerVars, recorded>>

guard(t, ok) ==
    /\ status[t] = "live"
    /\ IF ~active[t]
       THEN /\ last' = Returned(t, "guard", "TransactionClosed", "none")
            /\ UNCHANGED <<active, guardFailed>>
       ELSE /\ active' = [active EXCEPT ![t] = guard_active(active[t], ok)]
            /\ guardFailed' = [guardFailed EXCEPT ![t] = guardFailed[t] \/ ~ok]
            /\ LET result == ResultOf(ok)
               IN  last' = [Returned(t, "guard", result, "job")
                               EXCEPT !.arg = ResultOf(ok), !.count = 1]
    /\ UNCHANGED <<lifeVars, buffer, change_set, unbound_cursors, callerVars, recorded>>

\* NativeTxn::get_change_set: the caller registers event e in the RefMut.
get_change_set(t, e) ==
    /\ status[t] = "live"
    /\ change_set' = [change_set EXCEPT ![t] = RegisterChange(change_set[t], e)]
    /\ recorded' = [recorded EXCEPT ![t] = recorded[t] \cup {e}]
    /\ last' = Returned(t, "get_change_set", "None", "none")
    /\ UNCHANGED <<lifeVars, active, buffer, unbound_cursors, callerVars, guardFailed>>

\* ---------------------------------------------------------------- direct calls
\* open_db, clear_db, drop_db, stat: the active check, then the substrate
\* call, whose Result is returned as it is; act is the active flag afterwards.
DirectCall(t, op, call, ok, act) ==
    /\ status[t] = "live"
    /\ IF ~active[t]
       THEN /\ last' = Returned(t, op, "TransactionClosed", "none")
            /\ UNCHANGED active
       ELSE /\ last' = Returned(t, op, ResultOf(ok), call)
            /\ active' = [active EXCEPT ![t] = act]
    /\ UNCHANGED <<lifeVars, buffer, change_set, unbound_cursors, callerVars, ghostVars>>

\* NativeTxn::open_db
open_db_latching(t, ok) ==
    DirectCall(t, "open_db", "open", ok, guard_active(active[t], ok))

open_db(t, ok) == DirectCall(t, "open_db", "open", ok, active[t])

\* NativeTxn::clear_db
clear_db_unchecked(t, ok) ==
    /\ status[t] = "live"
    /\ last' = Returned(t, "clear_db", ResultOf(ok), "clear")
    /\ UNCHANGED <<lifeVars, fieldVars, callerVars, ghostVars>>

clear_db(t, ok) == DirectCall(t, "clear_db", "clear", ok, active[t])

\* NativeTxn::drop_db
drop_db(t, ok) == DirectCall(t, "drop_db", "drop", ok, active[t])

\* NativeTxn::stat
stat_latching(t, ok) ==
    DirectCall(t, "stat", "stat", ok, guard_active(active[t], ok))

stat(t, ok) == DirectCall(t, "stat", "stat", ok, active[t])

\* ---------------------------------------------------------------- cursors
CursorIds == 1..MaxCursors

PoolIds(t) == {unbound_cursors[t][i] : i \in 1..Len(unbound_cursors[t])}

HeldIds(t) == {c.id : c \in cursors[t]}

\* UnboundCursor::new: a cursor that is neither pooled nor held.
UnboundCursor_new(t) == Min(CursorIds \ (PoolIds(t) \cup HeldIds(t)))

\* Vec::pop: the last element, if any.
Popped(pool) == IF pool = <<>> THEN None ELSE Some(pool[Len(pool)])

AfterPop_kept(pool) == pool

AfterPop(pool) == IF pool = <<>> THEN pool ELSE SubSeq(pool, 1, Len(pool) - 1)

\* NativeTxn::get_cursor(db): the bind succeeds (ok) or fails; on failure
\* the `?` returns the error and the cursor taken for the bind is dropped.
\* `last` keeps the db asked for and the number of UnboundCursor::new calls.
get_cursor_pop_first(t, db, ok) ==
    /\ status[t] = "live"
    /\ Cardinality(cursors[t]) < MaxCursors
    /\ unbound_cursors' = [unbound_cursors EXCEPT ![t] = AfterPop(@)]
    /\ IF ~active[t]
       THEN /\ last' = [Returned(t, "get_cursor", "TransactionClosed", "none")
                           EXCEPT !.arg = db]
            /\ UNCHANGED cursors
       ELSE LET pool == unbound_cursors[t]
                unbound == IF Popped(pool) = None
                           THEN UnboundCursor_new(t) ELSE Popped(pool)[1]
            IN  /\ cursors' = [cursors EXCEPT ![t] =
                       IF ok THEN @ \cup {[id |-> unbound, db |-> db]} ELSE @]
                /\ last' = [Returned(t, "get_cursor", ResultOf(ok), "bind")
                               EXCEPT !.arg = db,
                                      !.count = IF Popped(pool) = None THEN 1 ELSE 0]
    /\ UNCHANGED <<lifeVars, active, buffer, change_set, taken, ghostVars>>

get_cursor(t, db, ok) ==
    /\ status[t] = "live"
    /\ Cardinality(cursors[t]) < MaxCursors
    /\ IF ~active[t]
       THEN /\ last' = [Returned(t, "get_cursor", "TransactionClosed", "none")
                           EXCEPT !.arg = db]
            /\ UNCHANGED <<unbound_cursors, cursors>>
       ELSE LET pool == unbound_cursors[t]
                unbound == IF Popped(pool) = None
                           THEN UnboundCursor_new(t) ELSE Popped(pool)[1]
            IN  /\ unbound_cursors' = [unbound_cursors EXCEPT ![t] = AfterPop(pool)]
                /\ cursors' = [cursors EXCEPT ![t] =
                       IF ok THEN @ \cup {[id |-> unbound, db |-> db]} ELSE @]
                /\ last' = [Returned(t, "get_cursor", ResultOf(ok), "bind")
                               EXCEPT !.arg = db,
                                      !.count = IF Popped(pool) = None THEN 1 ELSE 0]
    /\ UNCHANGED <<lifeVars, active, buffer, change_set, taken, ghostVars>>

\* Drop for TxnCursor: `if self.txn.unbound_cursors.borrow().len() < 3`.
pool_has_room_never(pool) == FALSE

pool_has_room_off_by_one(pool) == Len(pool) <= PoolCap

pool_has_room(pool) == Len(pool) < PoolCap

\* Drop for TxnCursor
TxnCursor_drop(t, c) ==
    /\ status[t] = "live"
    /\ c \in cursors[t]
    /\ cursors' = [cursors EXCEPT ![t] = @ \ {c}]
    /\ IF pool_has_room(unbound_cursors[t])
       THEN /\ unbound_cursors' = [unbound_cursors EXCEPT ![t] = Append(@, c.id)]
            /\ last' = Returned(t, "drop", "None", "unbind")
       ELSE /\ UNCHANGED unbound_cursors
            /\ last' = Returned(t, "drop", "None", "close")
    /\ UNCHANGED <<lifeVars, active, buffer, change_set, taken, ghostVars>>

\* ---------------------------------------------------------------- scratch buffer
BufferIds == 1..MaxBuffers

CellIds(t) == IF buffer[t] = None THEN {} ELSE {buffer[t][1].id}

TakenIds(t) == {b.id : b \in taken[t]}

\* Vec::new: an empty buffer that is neither in the cell nor held.
Vec_new(t) == [id |-> Min(BufferIds \ (CellIds(t) \cup TakenIds(t))), len |-> 0]

\* take_buffer: `self.buffer.replace(None)` leaves None in the cell.
take_buffer_cell_kept(cell) == cell

take_buffer_cell(cell) == None

\* NativeTxn::take_buffer
take_buffer(t) ==
    /\ status[t] = "live"
    /\ Cardinality(taken[t]) < MaxBuffers
    /\ LET b == IF buffer[t] = None THEN Vec_new(t) ELSE buffer[t][1]
       IN  taken' = [taken EXCEPT ![t] = @ \cup {b}]
    /\ buffer' = [buffer EXCEPT ![t] = take_buffer_cell(buffer[t])]
    /\ last' = Returned(t, "take_buffer", "None", "none")
    /\ UNCHANGED <<lifeVars, active, change_set, unbound_cursors, cursors, ghostVars>>

\* The caller appends a byte to a buffer it took.
write_buffer(t, b) ==
    /\ status[t] = "live"
    /\ b \in taken[t]
    /\ b.len < MaxBufLen
    /\ taken' = [taken EXCEPT ![t] = (@ \ {b}) \cup {[b EXCEPT !.len = @ + 1]}]
    /\ UNCHANGED <<lifeVars, fieldVars, cursors, ghostVars, last>>

\* put_buffer: `buffer.clear()` empties the buffer and keeps its allocation.
put_buffer_uncleared(b) == b

put_buffer_cleared(b) == [b EXCEPT !.len = 0]

\* NativeTxn::put_buffer: `buffer.clear(); self.buffer.replace(Some(buffer));`
\* `last` keeps the length the buffer came back with and the number of
\* stored buffers the replace dropped.
put_buffer(t, b) ==
    /\ status[t] = "live"
    /\ b \in taken[t]
    /\ taken' = [taken EXCEPT ![t] = @ \ {b}]
    /\ buffer' = [buffer EXCEPT ![t] = Some(put_buffer_cleared(b))]
    /\ last' = [Returned(t, "put_buffer", "None", "none")
                   EXCEPT !.arg = b.len, !.count = Len(buffer[t])]
    /\ UNCHANGED <<lifeVars, active, change_set, unbound_cursors, cursors, ghostVars>>

\* ---------------------------------------------------------------- import_json
\* The errors the deserializer can end the sequence visitor with.
VisitorErrors == {"syntax", "data", "eof"}

\* IsarJsonImportVisitor driven by deserialize_seq: it ends with the owned
\* transaction and the number of objects imported, whose change events it
\* registered, or with an error of the deserializer. A closed transaction
\* takes no insert, so a visitor that succeeds on it imported nothing.
VisitorOutcomes(t) ==
    {v \in [ok : {TRUE}, count : 0..MaxCount, events : SUBSET Events, err : {"none"}] :
        /\ (v.count = 0) <=> (v.events = {})
        /\ ~active[t] => v.count = 0}
    \cup [ok : {FALSE}, count : {0}, events : {{}}, err : VisitorErrors]

\* import_json: `.map_err(|_| IsarError::JsonError {})?`
import_json_result_unmapped(v) == IF v.ok THEN "Ok" ELSE v.err

import_json_result(v) == IF v.ok THEN "Ok" ELSE "JsonError"

\* IsarInstance::import_json: the transaction is moved into the visitor; it
\* comes back in Ok((txn, count)) and is dropped with the visitor on error.
import_json(t, v) ==
    /\ status[t] = "live"
    /\ cursors[t] = {}
    /\ v \in VisitorOutcomes(t)
    /\ IF v.ok
       THEN /\ change_set' = [change_set EXCEPT ![t] = @ \cup v.events]
            /\ recorded' = [recorded EXCEPT ![t] = @ \cup v.events]
            /\ last' = [Returned(t, "import_json", import_json_result(v), "job")
                           EXCEPT !.arg = v, !.count = v.count]
            /\ UNCHANGED <<lifeVars, active, buffer, unbound_cursors, callerVars,
                           guardFailed>>
       ELSE /\ sub' = [sub EXCEPT ![t] = Txn_dropped]
            /\ last' = [Called(t, "import_json", import_json_result(v), "job",
                                <<>>, change_set[t])
                           EXCEPT !.arg = v]
            /\ Consumed(t, "import_json")

\* ---------------------------------------------------------------- specifications
\* One transaction at a time: guard, the direct substrate calls, the cursor
\* pool, commit and abort.
Next ==
    \E t \in {Txn1} :
        \/ \E w \in BOOLEAN : begin_txn(t, w)
        \/ \E ok \in BOOLEAN : NativeTxn_new(t, ok)
        \/ \E ok \in BOOLEAN : guard(t, ok)
        \/ \E db \in Dbs, ok \in BOOLEAN : get_cursor(t, db, ok)
        \/ \E c \in cursors[t] : TxnCursor_drop(t, c)
        \/ \E ok \in BOOLEAN : open_db(t, ok)
        \/ \E ok \in BOOLEAN : clear_db(t, ok)
        \/ \E ok \in BOOLEAN : drop_db(t, ok)
        \/ \E ok \in BOOLEAN : stat(t, ok)
        \/ \E ok \in BOOLEAN : commit(t, ok)
        \/ abort(t)

Spec == Init /\ [][Next]_vars

\* One transaction at a time: the scratch buffer, beside guard, commit and
\* abort.
NextBuffer ==
    \E t \in {Txn1} :
        \/ \E w \in BOOLEAN : begin_txn(t, w)
        \/ \E ok \in BOOLEAN : NativeTxn_new(t, ok)
        \/ \E ok \in BOOLEAN : guard(t, ok)
        \/ take_buffer(t)
        \/ \E b \in taken[t] : write_buffer(t, b)
        \/ \E b \in taken[t] : put_buffer(t, b)
        \/ \E ok \in BOOLEAN : commit(t, ok)
        \/ abort(t)

SpecBuffer == Init /\ [][NextBuffer]_vars

\* Several transactions of one instance, begun, used and ended by
\* different threads: the lifecycle, guard, stat and the change-set.
NextInstance ==
    \E t \in Txns :
        \/ \E w \in BOOLEAN : begin_txn(t, w)
        \/ \E ok \in BOOLEAN : NativeTxn_new(t, ok)
        \/ \E ok \in BOOLEAN : guard(t, ok)
        \/ \E e \in Events : get_change_set(t, e)
        \/ \E ok \in BOOLEAN : stat(t, ok)
        \/ \E ok \in BOOLEAN : commit(t, ok)
        \/ abort(t)

SpecInstance == Init /\ [][NextInstance]_vars

\* One transaction at a time: the change-set and import_json, beside guard,
\* commit and abort.
NextImport ==
    \E t \in {Txn1} :
        \/ \E w \in BOOLEAN : begin_txn(t, w)
        \/ \E ok \in BOOLEAN : NativeTxn_new(t, ok)
        \/ \E ok \in BOOLEAN : guard(t, ok)
        \/ \E e \in Events : get_change_set(t, e)
        \/ \E v \in VisitorOutcomes(t) : import_json(t, v)
        \/ \E ok \in BOOLEAN : commit(t, ok)
        \/ abort(t)

SpecImport == Init /\ [][NextImport]_vars

\* One transaction at a time, every operation of NativeTxn and the drop of
\* a TxnCursor together, by a caller that holds few cursors and buffers.
NextAll ==
    \E t \in {Txn1} :
        \/ \E w \in BOOLEAN : begin_txn(t, w)
        \/ \E ok \in BOOLEAN : NativeTxn_new(t, ok)
        \/ \E ok \in BOOLEAN : guard(t, ok)
        \/ \E db \in Dbs, ok \in BOOLEAN :
              Cardinality(cursors[t]) < MaxHeld /\ get_cursor(t, db, ok)
        \/ \E c \in cursors[t] : TxnCursor_drop(t, c)
        \/ \E e \in Events : get_change_set(t, e)
        \/ \E ok \in BOOLEAN : open_db(t, ok)
        \/ \E ok \in BOOLEAN : clear_db(t, ok)
        \/ \E ok \in BOOLEAN : drop_db(t, ok)
        \/ \E ok \in BOOLEAN : stat(t, ok)
        \/ Cardinality(taken[t]) < MaxHeld /\ take_buffer(t)
        \/ \E b \in taken[t] : write_buffer(t, b)
        \/ \E b \in taken[t] : put_buffer(t, b)
        \/ \E ok \in BOOLEAN : commit(t, ok)
        \/ abort(t)

SpecAll == Init /\ [][NextAll]_vars

\* Several transactions competing for the writer slot: the lifecycle and
\* guard. Env::txn(write = true) waits on the substrate's writer lock, which
\* a waiting call acquires once the lock is free and stays free.
NextWriters ==
    \E t \in Txns :
        \/ \E w \in BOOLEAN : begin_txn(t, w)
        \/ \E ok \in BOOLEAN : NativeTxn_new(t, ok)
        \/ \E ok \in BOOLEAN : guard(t, ok)
        \/ \E ok \in BOOLEAN : commit(t, ok)
        \/ abort(t)

SpecWriters ==
    /\ Init
    /\ [][NextWriters]_vars
    /\ \A t \in Txns : WF_vars(NativeTxn_new(t, TRUE))

\* ---------------------------------------------------------------- properties
\* The operations that check the active flag and return a Result.
LatchedOps == {"guard", "get_cursor", "open_db", "clear_db", "drop_db", "stat", "commit"}

\* The operations that call the substrate directly, outside guard.
DirectOps == {"get_cursor", "open_db", "clear_db", "drop_db", "stat"}

\* In this step a call on transaction t returns.
CallOn(t) == last'.tick # last.tick /\ last'.txn = t

\* C1 - transaction latch law: once a job run through guard has returned an
\* error, every later guard, get_cursor, open_db, clear_db, drop_db, stat
\* and commit on the same transaction returns TransactionClosed.
C1_LatchLaw ==
    [][\A t \in Txns :
          (guardFailed[t] /\ CallOn(t) /\ last'.op \in LatchedOps)
              => last'.result = "TransactionClosed"]_vars

\* A direct call is rejected on a transaction latched by a failed job while
\* a cursor acquired before the failure is still held.
C1_Witness ==
    /\ guardFailed[Txn1]
    /\ cursors[Txn1] # {}
    /\ last.txn = Txn1
    /\ last.op \in DirectOps
    /\ last.result = "TransactionClosed"

\* C2 - watcher causality: notify_watchers is invoked only by a commit
\* whose substrate commit returned success, and never by abort, whether the
\* aborted transaction was active or latched.
C2_WatcherCausality ==
    /\ last.notify # <<>> =>
          /\ last.op = "commit"
          /\ last.result = "Ok"
          /\ last.sub = "commit"
          /\ sub[last.txn] = "committed"
    /\ \A t \in Txns :
          (endedBy[t] = "abort" /\ last.txn = t) => last.notify = <<>>

\* A latched transaction that recorded events has been aborted.
C2_Witness ==
    /\ last.op = "abort"
    /\ last.sub = "none"
    /\ sub[last.txn] = "dropped"
    /\ last.discarded # {}

\* C3 - cursor-pool bound: the pool of unbound cursors never holds more than
\* 3 cursors.
C3_PoolBound == \A t \in Txns : Len(unbound_cursors[t]) <= 3

\* A cursor was dropped while the pool was full, and was released.
C3_Witness ==
    /\ last.op = "drop"
    /\ last.sub = "close"
    /\ Len(unbound_cursors[last.txn]) = 3

\* C4 as stated - any substrate failure latches: a call of get_cursor,
\* open_db, clear_db, drop_db, stat or guard that returns an error leaves
\* the transaction inactive.
C4_AnyFailureLatches ==
    (last.op \in DirectOps \cup {"guard"} /\ last.result = "Err")
        => ~active[last.txn]

\* C4 as amended - only guard latches: a job run under guard that returns an
\* error leaves the transaction inactive; a failing substrate call made
\* directly by get_cursor, open_db, clear_db, drop_db or stat returns its
\* error and leaves the transaction active; and a call on an inactive
\* transaction returns TransactionClosed, the latching guard call apart.
C4_OnlyGuardLatches ==
    /\ (last.op = "guard" /\ last.result = "Err") => ~active[last.txn]
    /\ (last.op \in DirectOps /\ last.result = "Err") => active[last.txn]
    /\ \A t \in Txns :
          (status[t] = "live" /\ ~active[t] /\ last.txn = t
                /\ last.op \in DirectOps \cup {"guard"})
              => \/ last.result = "TransactionClosed"
                 \/ last.op = "guard" /\ last.result = "Err"

\* open_db, clear_db or drop_db has failed and the transaction is active.
C4_Witness ==
    /\ last.op \in {"open_db", "clear_db", "drop_db"}
    /\ last.result = "Err"
    /\ status[last.txn] = "live"
    /\ active[last.txn]

\* C5 - reads leave the transaction usable: a failing cursor bind in
\* get_cursor or a failing stat on an active transaction leaves the active
\* flag true, a call on an active transaction is never answered with
\* TransactionClosed, and a failing job under guard clears the flag.
C5_ReadsLeaveUsable ==
    [][\A t \in Txns :
          (status[t] = "live" /\ active[t] /\ CallOn(t)) =>
              /\ (last'.op \in {"get_cursor", "stat"} /\ last'.result = "Err")
                    => active'[t]
              /\ last'.op \in LatchedOps => last'.result # "TransactionClosed"
              /\ (last'.op = "guard" /\ last'.result = "Err") => ~active'[t]]_vars

\* A cursor bind has failed while another cursor is held, and the
\* transaction is still active.
C5_Witness ==
    /\ last.op = "get_cursor"
    /\ last.result = "Err"
    /\ cursors[last.txn] # {}
    /\ active[last.txn]

\* C6 - commit on a latched transaction: it returns TransactionClosed,
\* makes no substrate commit, leaves the substrate transaction uncommitted
\* and hands nothing to notify_watchers.
C6_CommitOnLatched ==
    [][\A t \in Txns :
          (status[t] = "live" /\ ~active[t] /\ CallOn(t) /\ last'.op = "commit") =>
              /\ last'.result = "TransactionClosed"
              /\ last'.sub = "none"
              /\ last'.notify = <<>>
              /\ sub'[t] # "committed"]_vars

\* A latched transaction that recorded events was handed to commit.
C6_Witness ==
    /\ last.op = "commit"
    /\ last.result = "TransactionClosed"
    /\ last.discarded # {}

\* C7 - failed commit: when the substrate commit fails, commit returns the
\* error, the transaction is gone with its change-set, every recorded event
\* is dropped unnotified and nothing is handed to notify_watchers.
C7_FailedCommit ==
    \A t \in Txns :
        sub[t] = "commit_failed" =>
            /\ status[t] = "ended"
            /\ change_set[t] = {}
            /\ (last.txn = t /\ last.op = "commit") =>
                  /\ last.result = "Err"
                  /\ last.notify = <<>>

\* The substrate commit of a transaction that recorded events has failed.
C7_Witness ==
    /\ last.op = "commit"
    /\ last.result = "Err"
    /\ sub[last.txn] = "commit_failed"
    /\ last.discarded # {}

\* C8 as stated - at most one scratch buffer handed out by take_buffer is
\* outstanding at any time.
C8_AtMostOneInFlight == \A t \in Txns : Cardinality(taken[t]) <= 1

\* C8 as amended - the buffer stored in the cell is in flight at most once:
\* take_buffer leaves the cell empty, no buffer is both stored in the cell
\* and outstanding, and no two outstanding buffers are the same buffer
\* (several buffers can be outstanding, the later ones newly allocated).
C8_StoredBufferMovedOut ==
    /\ \A t \in Txns :
          /\ CellIds(t) \cap TakenIds(t) = {}
          /\ Cardinality(TakenIds(t)) = Cardinality(taken[t])
    /\ last.op = "take_buffer" => buffer[last.txn] = None

\* take_buffer has handed out a second buffer while a first one, already
\* written to, is still outstanding.
C8_Witness ==
    /\ last.op = "take_buffer"
    /\ Cardinality(taken[last.txn]) = 2
    /\ \E b \in taken[last.txn] : b.len > 0
    /\ buffer[last.txn] = None

\* C9 - exactly-once notification: a successful commit hands exactly one
\* change-set to notify_watchers, holding exactly the events registered
\* through get_change_set on that transaction.
C9_ExactlyOnce ==
    [][\A t \in Txns :
          (status[t] = "live" /\ CallOn(t) /\ last'.op = "commit"
                /\ last'.result = "Ok")
              => /\ last'.notify = <<recorded[t]>>
                 /\ last'.discarded = {}]_vars

\* A commit has notified its events while another live transaction has
\* recorded events of its own that were not notified.
C9_Witness ==
    /\ last.op = "commit"
    /\ last.result = "Ok"
    /\ last.notify # <<{}>>
    /\ \E u \in Txns \ {last.txn} : status[u] = "live" /\ recorded[u] # {}

\* C10 - single writer: at most one write transaction is live at a time; a
\* begin_txn(write = true) waiting while one is live cannot return a
\* transaction.
LiveWriters == {t \in Txns : status[t] = "live" /\ write[t]}

C10_SingleWriter ==
    /\ Cardinality(LiveWriters) <= 1
    /\ \A t \in Txns :
          (status[t] = "waiting" /\ write[t] /\ LiveWriters # {})
              => ~ENABLED NativeTxn_new(t, TRUE)

\* A read transaction was begun and used while a write transaction is live.
C10_Witness ==
    /\ LiveWriters # {}
    /\ \E r \in Txns :
          /\ status[r] = "live"
          /\ ~write[r]
          /\ last.txn = r
          /\ last.op = "stat"
          /\ last.result = "Ok"

\* C11 - import_json outcome: when the sequence visitor succeeds,
\* import_json returns Ok with the visitor's count and the transaction is
\* still the caller's; when the visitor fails, whatever its error,
\* import_json returns JsonError and the transaction is gone.
C11_ImportJsonOutcome ==
    last.op = "import_json" =>
        /\ last.arg.ok =>
              /\ last.result = "Ok"
              /\ last.count = last.arg.count
              /\ status[last.txn] = "live"
        /\ ~last.arg.ok =>
              /\ last.result = "JsonError"
              /\ status[last.txn] = "ended"
              /\ endedBy[last.txn] = "import_json"

\* The visitor failed on a transaction that had recorded events.
C11_Witness ==
    /\ last.op = "import_json"
    /\ last.result = "JsonError"
    /\ last.discarded # {}
    /\ status[last.txn] = "ended"

\* C12 - an inactive transaction never reaches the substrate: while the
\* active flag is false, get_cursor, open_db, clear_db, drop_db, stat,
\* guard, commit and abort make no substrate call, and the wrapped
\* substrate transaction is neither committed nor aborted by them.
C12_InactiveNoSubstrate ==
    [][\A t \in Txns :
          (status[t] = "live" /\ ~active[t] /\ CallOn(t)
                /\ last'.op \in LatchedOps \cup {"abort"})
              => /\ last'.sub = "none"
                 /\ sub'[t] \notin {"committed", "commit_failed", "aborted"}]_vars

\* A latched transaction was ended by commit or abort without a substrate
\* call.
C12_Witness ==
    /\ last.op \in {"commit", "abort"}
    /\ last.sub = "none"
    /\ status[last.txn] = "ended"
    /\ sub[last.txn] = "dropped"

\* C13 - abort never fails: abort returns nothing, for an active and for a
\* latched transaction; it calls the substrate abort exactly when the
\* transaction is active; the transaction is gone and its change-set is
\* dropped without a notification.
C13_AbortNeverFails ==
    [][\A t \in Txns :
          (status[t] = "live" /\ CallOn(t) /\ last'.op = "abort") =>
              /\ last'.result = "None"
              /\ last'.sub = (IF active[t] THEN "abort" ELSE "none")
              /\ last'.notify = <<>>
              /\ last'.discarded = change_set[t]
              /\ status'[t] = "ended"
              /\ change_set'[t] = {}]_vars

\* An active transaction that recorded events was aborted.
C13_Witness ==
    /\ last.op = "abort"
    /\ last.sub = "abort"
    /\ sub[last.txn] = "aborted"
    /\ last.discarded # {}

\* C14 - the writer slot is always released: a write transaction that has
\* ended, by a successful or failed commit, by abort while active, or by
\* commit or abort after it was latched, no longer holds the writer slot;
\* so a begin_txn(write = true) that waits returns unless a live write
\* transaction holds the slot.
C14_WriterSlotReleased ==
    /\ [](\A t \in Txns : status[t] = "ended" => sub[t] # "open")
    /\ \A t \in Txns :
          (status[t] = "waiting" /\ write[t])
              ~> (status[t] # "waiting" \/ LiveWriters # {})

\* A begin_txn(write = true) has returned a transaction after a write
\* transaction that was latched ended without a substrate commit or abort.
C14_Witness ==
    /\ last.op = "begin_txn"
    /\ last.result = "Ok"
    /\ write[last.txn]
    /\ \E u \in Txns \ {last.txn} :
          /\ write[u]
          /\ status[u] = "ended"
          /\ endedBy[u] \in {"commit", "abort"}
          /\ sub[u] = "dropped"

\* C15 - cursor reuse on acquire: get_cursor on an active transaction
\* allocates a new unbound cursor only when the pool is empty; when the
\* pool is not empty it takes the last cursor out of the pool, which
\* shrinks by exactly one, and allocates none; the cursor is then bound to
\* the sub-database asked for.
C15_CursorReuse ==
    [][\A t \in Txns :
          (status[t] = "live" /\ active[t] /\ CallOn(t) /\ last'.op = "get_cursor") =>
              LET pool == unbound_cursors[t]
              IN  /\ last'.sub = "bind"
                  /\ IF pool = <<>>
                     THEN /\ last'.count = 1
                          /\ unbound_cursors'[t] = <<>>
                          /\ last'.result = "Ok" =>
                                \E c \in cursors'[t] :
                                    /\ c.id \notin HeldIds(t)
                                    /\ c.db = last'.arg
                                    /\ cursors'[t] = cursors[t] \cup {c}
                     ELSE /\ last'.count = 0
                          /\ Len(unbound_cursors'[t]) = Len(pool) - 1
                          /\ unbound_cursors'[t] = SubSeq(pool, 1, Len(pool) - 1)
                          /\ last'.result = "Ok" =>
                                cursors'[t] = cursors[t] \cup
                                    {[id |-> pool[Len(pool)], db |-> last'.arg]}
                  /\ last'.result = "Err" => cursors'[t] = cursors[t]]_vars

\* A pooled cursor was taken out of a pool that held several and was bound
\* to the index sub-database while another cursor is held.
C15_Witness ==
    /\ last.op = "get_cursor"
    /\ last.result = "Ok"
    /\ last.count = 0
    /\ last.arg = "index"
    /\ unbound_cursors[last.txn] # <<>>
    /\ Cardinality(cursors[last.txn]) >= 2
    /\ \E c \in cursors[last.txn] : c.db = "index"

\* C16 - cursor return on drop: dropping a TxnCursor unbinds its cursor and
\* appends it to the pool, which grows by exactly one, if and only if the
\* pool holds fewer than 3 cursors at that moment; otherwise the cursor is
\* released and the pool is unchanged. A cursor is returned or released at
\* most once: it is no longer held after the drop, no cursor is pooled
\* twice, and none is both pooled and held.
C16_CursorReturn ==
    /\ [](\A t \in Txns :
            /\ PoolIds(t) \cap HeldIds(t) = {}
            /\ Cardinality(PoolIds(t)) = Len(unbound_cursors[t])
            /\ Cardinality(HeldIds(t)) = Cardinality(cursors[t]))
    /\ [][\A t \in Txns :
            (status[t] = "live" /\ CallOn(t) /\ last'.op = "drop") =>
                LET pool == unbound_cursors[t]
                IN  \E c \in cursors[t] :
                        /\ cursors'[t] = cursors[t] \ {c}
                        /\ IF Len(pool) < 3
                           THEN /\ unbound_cursors'[t] = Append(pool, c.id)
                                /\ Len(unbound_cursors'[t]) = Len(pool) + 1
                                /\ last'.sub = "unbind"
                           ELSE /\ unbound_cursors'[t] = pool
                                /\ last'.sub = "close"]_vars

\* A dropped cursor took the last free place of the pool of a latched
\* transaction while another cursor is still held.
C16_Witness ==
    /\ last.op = "drop"
    /\ last.sub = "unbind"
    /\ Len(unbound_cursors[last.txn]) = 3
    /\ cursors[last.txn] # {}
    /\ ~active[last.txn]

\* C17 - the scratch buffer is handed out empty: every buffer take_buffer
\* returns has length 0, whatever was written into a buffer before
\* put_buffer handed it back; the cell stores at most one buffer, and a
\* put_buffer while one is stored replaces it.
C17_HandedOutEmpty ==
    /\ [](\A t \in Txns :
            /\ Len(buffer[t]) <= 1
            /\ buffer[t] # None => buffer[t][1].len = 0)
    /\ [][\A t \in Txns :
            (status[t] = "live" /\ CallOn(t)) =>
                /\ last'.op = "take_buffer" =>
                      \E b \in taken'[t] \ taken[t] :
                          /\ b.len = 0
                          /\ taken'[t] = taken[t] \cup {b}
                /\ last'.op = "put_buffer" =>
                      \E b \in taken[t] :
                          /\ b.len = last'.arg
                          /\ taken'[t] = taken[t] \ {b}
                          /\ buffer'[t] = Some([id |-> b.id, len |-> 0])]_vars

\* A buffer that had been written to was handed back while another buffer
\* was stored, and replaced it, empty.
C17_Witness ==
    /\ last.op = "put_buffer"
    /\ last.arg > 0
    /\ last.count = 1
    /\ buffer[last.txn] # None
    /\ buffer[last.txn][1].len = 0

\* C19 - guard latches exactly on failure: on an active transaction guard
\* runs its job exactly once and returns what the job returned; the
\* transaction is inactive afterwards if and only if the job returned an
\* error.
C19_GuardLatchesOnFailure ==
    [][\A t \in Txns :
          (status[t] = "live" /\ active[t] /\ CallOn(t) /\ last'.op = "guard") =>
              /\ last'.sub = "job"
              /\ last'.count = 1
              /\ last'.arg \in {"Ok", "Err"}
              /\ last'.result = last'.arg
              /\ ~active'[t] <=> last'.arg = "Err"]_vars

\* A job run under guard succeeded and left the transaction active, with a
\* cursor held and a cursor pooled.
C19_Witness ==
    /\ last.op = "guard"
    /\ last.result = "Ok"
    /\ last.count = 1
    /\ active[last.txn]
    /\ cursors[last.txn] # {}
    /\ unbound_cursors[last.txn] # <<>>

\* C18 - the latch is one-way: a transaction is created active, and once
\* its active flag is false no call of guard, get_cursor, open_db,
\* clear_db, drop_db, stat, take_buffer, put_buffer or get_change_set and
\* no drop of a TxnCursor sets it back to true.
C18_LatchOneWay ==
    [][\A t \in Txns :
          /\ (CallOn(t) /\ last'.op = "begin_txn" /\ last'.result = "Ok")
                => active'[t]
          /\ (status[t] = "live" /\ ~active[t] /\ status'[t] = "live")
                => ~active'[t]]_vars

\* An event was registered on a latched transaction that has a stored
\* buffer and a pooled cursor, and the transaction is still inactive.
C18_Witness ==
    /\ last.op = "get_change_set"
    /\ status[last.txn] = "live"
    /\ ~active[last.txn]
    /\ buffer[last.txn] # None
    /\ unbound_cursors[last.txn] # <<>>

\* C20 - rejected operations have no effect: when guard, get_cursor,
\* open_db, clear_db, drop_db or stat returns TransactionClosed, the
\* transaction was inactive, the job was not run and no substrate call was
\* made, no cursor was popped or allocated, and the active flag, the cursor
\* pool, the scratch buffer, the change-set and the cursors held are
\* unchanged.
C20_RejectedNoEffect ==
    [][\A t \in Txns :
          (status[t] = "live" /\ CallOn(t) /\ last'.op \in DirectOps \cup {"guard"}
                /\ last'.result = "TransactionClosed") =>
              /\ ~active[t]
              /\ last'.sub = "none"
              /\ last'.count = 0
              /\ active'[t] = active[t]
              /\ unbound_cursors'[t] = unbound_cursors[t]
              /\ buffer'[t] = buffer[t]
              /\ change_set'[t] = change_set[t]
              /\ cursors'[t] = cursors[t]
              /\ taken'[t] = taken[t]]_vars

\* get_cursor was rejected on a latched transaction that has a pooled
\* cursor, a stored buffer and a recorded event.
C20_Witness ==
    /\ last.op = "get_cursor"
    /\ last.result = "TransactionClosed"
    /\ unbound_cursors[last.txn] # <<>>
    /\ buffer[last.txn] # None
    /\ change_set[last.txn] # {}

====
